---- MODULE Spec2Model ----
(***************************************************************************)
(* The StoryGenerator component                                            *)
(* (src/src/app/quests/components/StoryGenerator/index.tsx) as a state     *)
(* machine: its three useState cells, the story store it reads and writes, *)
(* the invocations of handleGenerateStory that are suspended at an await,  *)
(* and the attributes of the rendered controls.                            *)
(***************************************************************************)
EXTENDS Bags, FiniteSets, Integers, Sequences, TLC

\* Longest task list the store holds in the model.
MaxTasks == 2
\* Most invocations of handleGenerateStory suspended at an await at once.
MaxInflight == 2

VARIABLES
    tasks,        \* store: tasks (line 10)
    settings,     \* store: settings (line 10)
    aiModel,      \* store: aiModel (line 10)
    story,        \* store: story, read as savedStory (line 10)
    isGenerating, \* useState(false) (line 11)
    error,        \* useState<string | null>(null) (line 12)
    showStory,    \* useState(false) (line 13)
    inflight,     \* bag of handleGenerateStory invocations suspended at an await
    view,         \* attributes of the controls as last rendered (lines 130-286)
    last          \* the handler or continuation that ran last

store == <<tasks, settings, aiModel>>
vars == <<tasks, settings, aiModel, story, isGenerating, error, showStory,
          inflight, view, last>>

----------------------------------------------------------------------------
(* Values *)

\* string | null, and thrown values: <<>> is null, <<s>> is the string s.
None == <<>>
Some(s) == <<s>>

MsgNoTasks == "No active tasks to generate story from"
MsgSettings == "Please configure your story settings first"
MsgFallback == "Failed to generate story"

\* JSON values as response.json() yields them.
JsonNull == [type |-> "null"]
JsonEmptyObject == [type |-> "object"]
ErrRateLimited == [type |-> "object", error |-> "rate limited"]
ErrBlank == [type |-> "object", error |-> ""]
Story1 == [type |-> "object", title |-> "T1", openingScene |-> "O1",
           transformedTasks |-> <<"Q1">>, epilogue |-> "E1"]
Story2 == [type |-> "object", title |-> "T2", openingScene |-> "O2",
           transformedTasks |-> <<"Q1", "Q2">>, epilogue |-> "E2"]

\* Response bodies as text on the wire.
TxtEmpty == ""
TxtHtml == "<html>502 Bad Gateway</html>"
TxtNull == "null"
TxtEmptyObject == "{}"
TxtRateLimited == "{\"error\":\"rate limited\"}"
TxtErrBlank == "{\"error\":\"\"}"
TxtStory1 == "{\"title\":\"T1\", ...}"
TxtStory2 == "{\"title\":\"T2\", ...}"

\* Bodies the endpoint sends with a success status and with a failure status.
OkTexts == {TxtStory1, TxtStory2, TxtNull, TxtEmpty}
FailTexts == {TxtRateLimited, TxtErrBlank, TxtEmptyObject, TxtNull, TxtEmpty, TxtHtml}
Responses == [ok : {TRUE}, text : OkTexts] \cup [ok : {FALSE}, text : FailTexts]

\* What fetch rejects with when the network call itself fails.
FetchRejections == {[isError |-> TRUE, message |-> "Failed to fetch"]}

NoResponse == [ok |-> FALSE, text |-> TxtEmpty]

\* JS truthiness of a string.
Truthy(s) == s # ""

\* response.json(): resolves with the parsed value or rejects with a SyntaxError.
JsonParse(text) ==
    CASE text = TxtNull        -> [ok |-> TRUE, value |-> JsonNull]
      [] text = TxtEmptyObject -> [ok |-> TRUE, value |-> JsonEmptyObject]
      [] text = TxtRateLimited -> [ok |-> TRUE, value |-> ErrRateLimited]
      [] text = TxtErrBlank    -> [ok |-> TRUE, value |-> ErrBlank]
      [] text = TxtStory1      -> [ok |-> TRUE, value |-> Story1]
      [] text = TxtStory2      -> [ok |-> TRUE, value |-> Story2]
      [] text = TxtEmpty       -> [ok |-> FALSE, thrown |->
             [isError |-> TRUE, message |-> "Unexpected end of JSON input"]]
      [] OTHER                 -> [ok |-> FALSE, thrown |->
             [isError |-> TRUE, message |-> "Unexpected token < in JSON at position 0"]]

----------------------------------------------------------------------------
(* The store's inputs and the derived values *)

Statuses == {"active", "completed"}
Task == [status : Statuses]
TaskLists == UNION {[1..n -> Task] : n \in 0..MaxTasks}
SettingValues == {"", "set"}
Settings == [universe : SettingValues, character : SettingValues,
             narrativeStyle : SettingValues]
Models == {"model-a"}

\* activeTasks (lines 16-19)
ActiveTasksOf(ts) == SelectSeq(ts, LAMBDA t : t.status = "active")
ActiveTasks == ActiveTasksOf(tasks)

\* Faulty variant of Validate: the task check is dropped
ValidateNoTaskCheck(active, s) ==
    IF ~Truthy(s.universe) \/ ~Truthy(s.character) \/ ~Truthy(s.narrativeStyle)
    THEN Some(MsgSettings)
    ELSE None

\* Faulty variant of Validate: the two checks in the other order
ValidateSettingsFirst(active, s) ==
    IF ~Truthy(s.universe) \/ ~Truthy(s.character) \/ ~Truthy(s.narrativeStyle)
    THEN Some(MsgSettings)
    ELSE IF Len(active) = 0 THEN Some(MsgNoTasks) ELSE None

\* The two early returns of handleGenerateStory (lines 22-30): the message the
\* handler refuses with, or None when it goes on to the request.
Validate(active, s) ==
    IF Len(active) = 0
    THEN Some(MsgNoTasks)
    ELSE IF ~Truthy(s.universe) \/ ~Truthy(s.character) \/ ~Truthy(s.narrativeStyle)
         THEN Some(MsgSettings)
         ELSE None

\* Faulty variant of FailureThrown: the body's message is ignored
FailureThrownGeneric(errorData) ==
    IF errorData = JsonNull
    THEN [isError |-> TRUE, message |-> "Cannot read properties of null (reading 'error')"]
    ELSE [isError |-> TRUE, message |-> MsgFallback]

\* What lines 47-48 throw once the failure body has parsed to errorData:
\* reading .error of null is a TypeError, otherwise
\* new Error(errorData.error || 'Failed to generate story').
FailureThrown(errorData) ==
    IF errorData = JsonNull
    THEN [isError |-> TRUE, message |-> "Cannot read properties of null (reading 'error')"]
    ELSE [isError |-> TRUE,
          message |-> IF "error" \in DOMAIN errorData /\ Truthy(errorData.error)
                      THEN errorData.error
                      ELSE MsgFallback]

\* err instanceof Error ? err.message : 'Failed to generate story' (line 58)
CatchMessage(err) == IF err.isError THEN err.message ELSE MsgFallback

\* Faulty variant of Render: the control is not disabled while generating
RenderNoLoadingGuard(ts, ig, st) ==
    [disabled |-> Len(ActiveTasksOf(ts)) = 0,
     clearControl |-> st # JsonNull,
     header |-> st # JsonNull]

\* Faulty variant of Render: the control is not disabled for an empty task list
RenderNoTaskGuard(ts, ig, st) ==
    [disabled |-> ig,
     clearControl |-> st # JsonNull,
     header |-> st # JsonNull]

\* The attributes of the rendered controls (lines 130-286): the generate
\* button's disabled (line 181), the clear control (lines 166-176) and the
\* story header (lines 236-262), both rendered only for a truthy savedStory.
Render(ts, ig, st) ==
    [disabled |-> ig \/ Len(ActiveTasksOf(ts)) = 0,
     clearControl |-> st # JsonNull,
     header |-> st # JsonNull]

\* The store's setStory and clearStory.
SetStory(s) == story' = s
ClearStory == story' = JsonNull

----------------------------------------------------------------------------
(* Initial state: the store as the component finds it on mount, and the
   useState initial values. *)

Init ==
    /\ tasks \in TaskLists
    /\ settings \in Settings
    /\ aiModel \in Models
    /\ story \in {JsonNull, Story1}
    /\ isGenerating = FALSE
    /\ error = None
    /\ showStory = FALSE
    /\ inflight = EmptyBag
    /\ view = Render(tasks, FALSE, story)
    /\ last = "mount"

----------------------------------------------------------------------------
(* handleGenerateStory (lines 21-62).  The handler runs to its first await in
   one step; each await is a point where other handlers may run. *)

\* The invocation record of a call that passed validation, suspended at
\* await fetch(...) with the request body of lines 39-43.
NewInvocation ==
    [pc |-> "fetch",
     req |-> [tasks |-> ActiveTasks, settings |-> settings, model |-> aiModel],
     resp |-> NoResponse]

\* Lines 21-44: the early returns, then setIsGenerating(true), setError(null)
\* and the request.
HandleGenerateStory ==
    /\ LET refusal == Validate(ActiveTasks, settings) IN
         IF refusal # None
         THEN /\ error' = refusal
              /\ UNCHANGED <<isGenerating, inflight>>
         ELSE /\ BagCardinality(inflight) < MaxInflight
              /\ isGenerating' = TRUE
              /\ error' = None
              /\ inflight' = inflight (+) SetToBag({NewInvocation})
    /\ UNCHANGED <<store, story, showStory>>
    /\ view' = Render(tasks, isGenerating', story')
    /\ last' = "generate"

\* Faulty variant of CatchFinally: no finally clause
CatchNoFinally(r, err) ==
    /\ error' = Some(CatchMessage(err))
    /\ inflight' = inflight (-) SetToBag({r})
    /\ UNCHANGED <<isGenerating, store, story, showStory>>
    /\ view' = Render(tasks, isGenerating', story')

\* Faulty variant of CatchFinally: the failure discards the persisted story
CatchDropsStory(r, err) ==
    /\ error' = Some(CatchMessage(err))
    /\ isGenerating' = FALSE
    /\ inflight' = inflight (-) SetToBag({r})
    /\ ClearStory
    /\ UNCHANGED <<store, showStory>>
    /\ view' = Render(tasks, isGenerating', story')

\* Lines 56-61: invocation r leaves through catch with the thrown value err,
\* then through finally.
CatchFinally(r, err) ==
    /\ error' = Some(CatchMessage(err))
    /\ isGenerating' = FALSE
    /\ inflight' = inflight (-) SetToBag({r})
    /\ UNCHANGED <<store, story, showStory>>
    /\ view' = Render(tasks, isGenerating', story')

\* Faulty variant of StoreAndShow: the display is not expanded
StoreNoShow(r, parsed) ==
    /\ SetStory(parsed)
    /\ isGenerating' = FALSE
    /\ inflight' = inflight (-) SetToBag({r})
    /\ UNCHANGED <<store, error, showStory>>
    /\ view' = Render(tasks, isGenerating', story')

\* Faulty variant of StoreAndShow: the success also clears the error
StoreClearsError(r, parsed) ==
    /\ SetStory(parsed)
    /\ showStory' = TRUE
    /\ error' = None
    /\ isGenerating' = FALSE
    /\ inflight' = inflight (-) SetToBag({r})
    /\ UNCHANGED store
    /\ view' = Render(tasks, isGenerating', story')

\* Lines 51-55 and 59-61: invocation r stores the parsed body, expands the
\* display and leaves through finally.
StoreAndShow(r, parsed) ==
    /\ SetStory(parsed)
    /\ showStory' = TRUE
    /\ isGenerating' = FALSE
    /\ inflight' = inflight (-) SetToBag({r})
    /\ UNCHANGED <<store, error>>
    /\ view' = Render(tasks, isGenerating', story')

\* await fetch(...) resolves with a response (line 36); the invocation goes on
\* to await response.json() (line 47 or line 51).
FetchResolves(r, resp) ==
    /\ r.pc = "fetch"
    /\ inflight' = (inflight (-) SetToBag({r}))
                     (+) SetToBag({[r EXCEPT !.pc = "json", !.resp = resp]})
    /\ UNCHANGED <<store, story, isGenerating, error, showStory>>
    /\ view' = Render(tasks, isGenerating', story')
    /\ last' = "response"

\* await fetch(...) rejects (line 36): the network call itself failed.
FetchRejects(r, err) ==
    /\ r.pc = "fetch"
    /\ CatchFinally(r, err)
    /\ last' = "settled"

\* await response.json() settles (lines 46-55): for a failure status the
\* parsed body is thrown as an Error (lines 47-48), for a success status it is
\* the story (lines 51-55); a body that does not parse rejects in both.
JsonSettles(r) ==
    /\ r.pc = "json"
    /\ LET parsed == JsonParse(r.resp.text) IN
         IF ~parsed.ok
         THEN CatchFinally(r, parsed.thrown)
         ELSE IF ~r.resp.ok
              THEN CatchFinally(r, FailureThrown(parsed.value))
              ELSE StoreAndShow(r, parsed.value)
    /\ last' = "settled"

----------------------------------------------------------------------------
(* The other handlers *)

\* Faulty variant of HandleClearStory: the error is dismissed too
ClearStoryAndError ==
    /\ ClearStory
    /\ showStory' = FALSE
    /\ error' = None
    /\ UNCHANGED <<store, isGenerating, inflight>>
    /\ view' = Render(tasks, isGenerating', story')
    /\ last' = "clear"

\* handleClearStory (lines 64-67)
HandleClearStory ==
    /\ ClearStory
    /\ showStory' = FALSE
    /\ UNCHANGED <<store, isGenerating, error, inflight>>
    /\ view' = Render(tasks, isGenerating', story')
    /\ last' = "clear"

\* onClick of the story header (line 250): setShowStory(!showStory)
ToggleStory ==
    /\ view.header
    /\ showStory' = ~showStory
    /\ UNCHANGED <<store, story, isGenerating, error, inflight>>
    /\ view' = Render(tasks, isGenerating', story')
    /\ last' = "toggle"

----------------------------------------------------------------------------
(* Events *)

\* A click on the generate button (lines 177-182): delivered only while the
\* button is not disabled.
ClickGenerate == ~view.disabled /\ HandleGenerateStory

\* A click on the clear control (lines 166-176), rendered only with a story.
ClickClear == view.clearControl /\ HandleClearStory

FetchResolve == \E r \in BagToSet(inflight) : \E resp \in Responses : FetchResolves(r, resp)
FetchReject == \E r \in BagToSet(inflight) : \E err \in FetchRejections : FetchRejects(r, err)
JsonSettle == \E r \in BagToSet(inflight) : JsonSettles(r)

\* The handlers called directly, past the rendered controls.
CallGenerate == HandleGenerateStory
CallClear == HandleClearStory

\* The component as the user drives it.
Next ==
    \/ ClickGenerate
    \/ ClickClear
    \/ ToggleStory
    \/ FetchResolve
    \/ FetchReject
    \/ JsonSettle

Spec == Init /\ [][Next]_vars

\* The component with its handlers also called directly.
NextCall == Next \/ CallGenerate \/ CallClear

SpecCall == Init /\ [][NextCall]_vars

----------------------------------------------------------------------------
(* Properties *)

SettingsMissing ==
    settings.universe = "" \/ settings.character = "" \/ settings.narrativeStyle = ""

InFlight == BagCardinality(inflight)

\* Invocation r left the handler in this step.
Left(r) == r \in BagToSet(inflight) /\ inflight' = inflight (-) SetToBag({r})

\* Invocation r left the handler in this step on a failure path: fetch
\* rejected, the status was a failure, or the body did not parse.
Failed(r) ==
    /\ Left(r)
    /\ \/ r.pc = "fetch"
       \/ r.pc = "json" /\ (~r.resp.ok \/ ~JsonParse(r.resp.text).ok)

\* C1: an invocation of handleGenerateStory with no active task, or with an
\* active task and a setting missing, issues no request, leaves isGenerating,
\* the persisted story and the display as they were, and sets error to the
\* message of the check that failed.
C1_RefusalOnlySetsError ==
    [][(last' = "generate" /\ (Len(ActiveTasks) = 0 \/ SettingsMissing)) =>
        /\ inflight' = inflight
        /\ isGenerating' = isGenerating
        /\ story' = story
        /\ showStory' = showStory
        /\ error' = Some(IF Len(ActiveTasks) = 0 THEN MsgNoTasks ELSE MsgSettings)]_vars

\* C1 witness: the handler has refused an invocation with complete settings
\* and no active task.
C1_Witness ==
    /\ last = "generate"
    /\ Len(ActiveTasks) = 0
    /\ ~SettingsMissing
    /\ error = Some(MsgNoTasks)
    /\ InFlight = 0

\* C2 as stated: the settings check comes first, so every invocation with a
\* setting missing yields the settings message, and the no-tasks message is
\* produced only with complete settings.
C2_SettingsCheckedFirst ==
    [][(last' = "generate") =>
        /\ SettingsMissing => error' = Some(MsgSettings)
        /\ error' = Some(MsgNoTasks) => ~SettingsMissing]_vars

\* C2 as amended: the task check comes first, so every invocation with no
\* active task yields the no-tasks message, also with a setting missing, and
\* the settings message is produced only with at least one active task.
C2_TasksCheckedFirst ==
    [][(last' = "generate") =>
        /\ Len(ActiveTasks) = 0 => error' = Some(MsgNoTasks)
        /\ (Len(ActiveTasks) > 0 /\ SettingsMissing) => error' = Some(MsgSettings)
        /\ error' = Some(MsgSettings) => Len(ActiveTasks) > 0]_vars

\* C2 witness: an invocation with no active task and a setting missing was
\* refused with the no-tasks message.
C2_Witness ==
    /\ last = "generate"
    /\ Len(ActiveTasks) = 0
    /\ SettingsMissing
    /\ error = Some(MsgNoTasks)

\* C3: isGenerating is true exactly when a generation request is in flight.
C3_LoadingIffInFlight == isGenerating <=> InFlight > 0

\* C3 witness: a request has settled on a failure path and the flag is back
\* to false.
C3_Witness ==
    /\ last = "settled"
    /\ error # None
    /\ ~isGenerating
    /\ InFlight = 0

\* C4: when a request settles with a success status and a body that parses,
\* the persisted story becomes the parsed body and showStory becomes true.
C4_SuccessStoresBody ==
    [][\A r \in BagToSet(inflight) :
        (Left(r) /\ r.pc = "json" /\ r.resp.ok /\ JsonParse(r.resp.text).ok) =>
            /\ story' = JsonParse(r.resp.text).value
            /\ showStory' = TRUE]_vars

\* C4 witness: a success response has replaced the story with Story2 and
\* expanded the display.
C4_Witness ==
    /\ last = "settled"
    /\ story = Story2
    /\ showStory
    /\ error = None

BodyError(text) ==
    LET parsed == JsonParse(text) IN
      IF parsed.ok /\ "error" \in DOMAIN parsed.value /\ parsed.value.error # ""
      THEN Some(parsed.value.error)
      ELSE None

\* C6 as stated: after every failure status the error is the body's error
\* string when it carries one and the generic fallback otherwise; the
\* exception's message is used only when fetch rejects or a success body does
\* not parse.
C6_FailureStatusNeverUsesException ==
    [][\A r \in BagToSet(inflight) :
        /\ (Left(r) /\ r.pc = "json" /\ ~r.resp.ok) =>
              error' = IF BodyError(r.resp.text) # None
                       THEN BodyError(r.resp.text)
                       ELSE Some(MsgFallback)
        /\ (Left(r) /\ r.pc = "json" /\ r.resp.ok /\ ~JsonParse(r.resp.text).ok) =>
              error' = Some(JsonParse(r.resp.text).thrown.message)
        /\ \A err \in FetchRejections :
              (Left(r) /\ r.pc = "fetch") => error' = Some(err.message)]_vars

\* C6 as amended: after a failure status whose body parses to a JSON object
\* the error is the body's non-empty error string, or the generic fallback
\* when the field is absent or empty; when the body of a failure status does
\* not parse, or parses to null, the error is the message of the exception
\* that raises, as it is when fetch rejects or a success body does not parse.
C6_FailureMessage ==
    [][\A r \in BagToSet(inflight) :
        /\ (Left(r) /\ r.pc = "json" /\ ~r.resp.ok) =>
              LET parsed == JsonParse(r.resp.text) IN
                error' = IF ~parsed.ok
                         THEN Some(parsed.thrown.message)
                         ELSE IF parsed.value = JsonNull
                              THEN Some("Cannot read properties of null (reading 'error')")
                              ELSE IF BodyError(r.resp.text) # None
                                   THEN BodyError(r.resp.text)
                                   ELSE Some(MsgFallback)
        /\ (Left(r) /\ r.pc = "json" /\ r.resp.ok /\ ~JsonParse(r.resp.text).ok) =>
              error' = Some(JsonParse(r.resp.text).thrown.message)
        /\ \A err \in FetchRejections :
              (Left(r) /\ r.pc = "fetch") => error' = Some(err.message)]_vars

\* C6 witness: a failure status came with a body that is not JSON, and the
\* error is the parser's message.
C6_Witness ==
    /\ last = "settled"
    /\ error = Some(JsonParse(TxtHtml).thrown.message)
    /\ ~isGenerating

\* C7: handleClearStory makes the persisted story absent and showStory false
\* and leaves error, isGenerating and the requests in flight as they were.
C7_ClearFrame ==
    [][(last' = "clear") =>
        /\ story' = JsonNull
        /\ showStory' = FALSE
        /\ error' = error
        /\ isGenerating' = isGenerating
        /\ inflight' = inflight]_vars

\* C7 witness: the story was cleared while an error was displayed and a
\* request was in flight.
C7_Witness ==
    /\ last = "clear"
    /\ story = JsonNull
    /\ error # None
    /\ InFlight > 0

\* C8: the rendered generate control is disabled exactly when isGenerating is
\* true or there is no active task.
C8_DisabledIff == view.disabled <=> (isGenerating \/ Len(ActiveTasks) = 0)

\* C8 witness: the control is enabled with a story persisted and an error
\* displayed.
C8_Witness ==
    /\ ~view.disabled
    /\ story # JsonNull
    /\ error # None
    /\ last = "settled"

\* C9: a set error becomes absent only in a step of handleGenerateStory that
\* passes validation, the step that also sets isGenerating and issues the
\* request; every other step leaves it set.
C9_ErrorClearedOnlyAtStart ==
    [][(error # None /\ error' = None) =>
        /\ last' = "generate"
        /\ Len(ActiveTasks) > 0
        /\ ~SettingsMissing
        /\ isGenerating'
        /\ InFlight' = InFlight + 1]_vars

\* C9 witness: an error is still displayed after the story header was
\* toggled open.
C9_Witness ==
    /\ last = "toggle"
    /\ error # None
    /\ showStory

\* C10: with handleGenerateStory invoked only through the rendered control,
\* at most one generation request is in flight.
C10_AtMostOneInFlight == InFlight <= 1

\* C10 witness: a request is in flight after an earlier one has settled with
\* Story2.
C10_Witness ==
    /\ InFlight = 1
    /\ isGenerating
    /\ story = Story2

====
